---- MODULE Spec2Model ----
(***************************************************************************)
(* Authorization and custody core of bottled-secrets:                      *)
(*   - app/auth/roles.py      role/permission registry, UserPermissions    *)
(*   - app/auth/models.py     User and its session representation          *)
(*   - app/admin/user_manager.py  role-assignment service (UserManager)    *)
(*   - app/models.py          Folder / FolderPermission access model       *)
(*                                                                         *)
(* Enum members are represented by their .value strings, so UserRole(v)    *)
(* is the partial function that accepts exactly the strings in UserRoles.  *)
(* Clock-valued columns (assigned_at, granted_at, created_at, last_seen)  *)
(* and display-only fields (role_display, icon, description) carry no      *)
(* decision and are left out of the records.                               *)
(***************************************************************************)
EXTENDS Integers, Sequences, FiniteSets, TLC

VARIABLES
    up_roles,        \* UserPermissions.roles
    up_permissions,  \* UserPermissions.permissions
    up_assigned_by,  \* UserPermissions.assigned_by
    up_last,         \* last UserPermissions call: [op, role]
    va_args,         \* arguments of the last validate_role_assignment call
    va_result,       \* its return value <<is_valid, error_message>>
    session,         \* Flask session: NoSession or the dict under session["user"]
    users_cache,     \* UserManager._users_cache: ordered <<key, ref>> pairs
    heap,            \* the user dicts the cache refers to (ref -> dict)
    last,            \* last UserManager call and its return value
    folders,         \* rows of table "folders", index = id
    permissions,     \* rows of table "permissions", in insertion order
    secrets,         \* rows of table "secrets", index = id
    given,           \* per secret, the plaintext last passed to it (not stored)
    environ,         \* os.environ.get("SECRETS_ENCRYPTION_KEY")
    urandom,         \* number of keys drawn from os.urandom so far
    result,          \* last Secret call and what it returned or raised
    requests         \* grant requests in flight: position and what each read

roleVars   == <<up_roles, up_permissions, up_assigned_by, up_last>>
validVars  == <<va_args, va_result>>
adminVars  == <<session, users_cache, heap, last>>
storeVars  == <<secrets, given, environ, urandom, result>>
folderVars == <<folders, permissions, storeVars>>
vars == <<up_roles, up_permissions, up_assigned_by, up_last, va_args, va_result,
          session, users_cache, heap, last, folders, permissions,
          secrets, given, environ, urandom, result, requests>>

----------------------------------------------------------------------------
(* Bounds *)

MaxCache   == 1   \* keys kept in UserManager._users_cache
MaxFolders == 2   \* rows of table "folders"
MaxRows    == 1   \* rows of table "permissions"
MaxGrants  == 2   \* rows of table "permissions" made by grant_access alone
MaxSecrets == 2   \* rows of table "secrets"
MaxRandom  == 2   \* keys drawn from os.urandom

----------------------------------------------------------------------------
(* Strings *)

None == "None"

ADMIN_EMAIL == "admin@example.com"
USER_EMAIL  == "user@example.com"

\* the e-mail strings callers supply: two identities, two spellings each
Emails == {"admin@example.com", "ADMIN@example.com",
           "user@example.com", "USER@example.com"}

\* str.lower() on the strings above
Lower(s) ==
    CASE s = "ADMIN@example.com" -> "admin@example.com"
      [] s = "USER@example.com"  -> "user@example.com"
      [] OTHER -> s

----------------------------------------------------------------------------
(* app/auth/roles.py *)

USER_ADMINISTRATOR == "user_administrator"
REGULAR_USER       == "regular_user"
GUEST              == "guest"

UserRoles == {USER_ADMINISTRATOR, REGULAR_USER, GUEST}

MANAGE_USERS     == "manage_users"
MANAGE_ROLES     == "manage_roles"
VIEW_ADMIN_PANEL == "view_admin_panel"
VIEW_USER_LIST   == "view_user_list"
ACCESS_SECRETS   == "access_secrets"
MANAGE_SECRETS   == "manage_secrets"

Permissions == {MANAGE_USERS, MANAGE_ROLES, VIEW_ADMIN_PANEL, VIEW_USER_LIST,
                ACCESS_SECRETS, MANAGE_SECRETS}

ROLE_PERMISSIONS ==
    [r \in UserRoles |->
        CASE r = USER_ADMINISTRATOR ->
                {MANAGE_USERS, MANAGE_ROLES, VIEW_ADMIN_PANEL, VIEW_USER_LIST,
                 ACCESS_SECRETS, MANAGE_SECRETS}
          [] r = REGULAR_USER -> {ACCESS_SECRETS, MANAGE_SECRETS}
          [] r = GUEST -> {}]

\* _ROLE_PERMISSIONS.get(role, set()).copy()
get_role_permissions(role) ==
    IF role \in DOMAIN ROLE_PERMISSIONS THEN ROLE_PERMISSIONS[role] ELSE {}

\* the loop of _update_permissions: permissions.update(...) for each role
RECURSIVE UpdateLoop(_, _)
UpdateLoop(rs, acc) ==
    IF rs = {} THEN acc
    ELSE LET r == CHOOSE x \in rs : TRUE
         IN  UpdateLoop(rs \ {r}, acc \cup get_role_permissions(r))

\* mutant: a new identity defaults to Guest
get_default_role_guest == GUEST

get_default_role == REGULAR_USER

\* mutant: the permissions.clear() is missing
update_permissions_noclear(roles, old) == UpdateLoop(roles, old)

\* UserPermissions._update_permissions: clear, then rebuild from the roles
update_permissions(roles, old) == UpdateLoop(roles, {})

\* User.__init__, lines 94-101: the role set a new User ends up with
UserInitRoles(roles) == IF roles # {} THEN roles ELSE {get_default_role}

\* UserPermissions.add_role
add_role(role, by) ==
    /\ up_roles' = up_roles \cup {role}
    /\ up_assigned_by' = by
    /\ up_permissions' = update_permissions(up_roles', up_permissions)
    /\ up_last' = [op |-> "add_role", role |-> role]

\* mutant: set.remove in place of set.discard
remove_role_strict(role) ==
    IF role \in up_roles
    THEN /\ up_roles' = up_roles \ {role}
         /\ up_permissions' = update_permissions(up_roles', up_permissions)
         /\ up_last' = [op |-> "remove_role", role |-> role, held |-> TRUE]
         /\ UNCHANGED up_assigned_by
    ELSE /\ up_last' = [op |-> "KeyError", role |-> role, held |-> FALSE]
         /\ UNCHANGED <<up_roles, up_permissions, up_assigned_by>>

\* UserPermissions.remove_role; up_last notes whether the role was held
remove_role(role) ==
    /\ up_roles' = up_roles \ {role}
    /\ up_permissions' = update_permissions(up_roles', up_permissions)
    /\ up_last' = [op |-> "remove_role", role |-> role, held |-> role \in up_roles]
    /\ UNCHANGED up_assigned_by

----------------------------------------------------------------------------
(* Values the variables of one component hold while another one is checked *)

RolesIdle ==
    /\ up_roles = {}
    /\ up_permissions = {}
    /\ up_assigned_by = None
    /\ up_last = [op |-> "idle", role |-> None]

ValidIdle ==
    /\ va_args = <<>>
    /\ va_result = <<>>

\* no grant request is in flight
NoRequests == requests = <<>>

NoSession == [authenticated |-> FALSE]

AdminIdle ==
    /\ session = NoSession
    /\ users_cache = <<>>
    /\ heap = <<>>
    /\ last = [op |-> "idle"]

\* no secret, no key configured, no call made
StoreIdle ==
    /\ secrets = <<>>
    /\ given = <<>>
    /\ environ = None
    /\ urandom = 0
    /\ result = [op |-> "idle"]

FolderIdle ==
    /\ folders = <<>>
    /\ permissions = <<>>
    /\ StoreIdle

----------------------------------------------------------------------------
(* UserPermissions: construction, add_role, remove_role *)

\* the roles argument of User.__init__ left at its default, None
RolesOmitted == [omitted |-> TRUE]

\* the roles arguments callers pass
RolesArguments == {RolesOmitted} \cup {[roles |-> rs] : rs \in SUBSET UserRoles}

\* User.__init__(roles=arg): UserPermissions(), roles set or defaulted, then
\* _update_permissions(); "if roles:" is false for None and for an empty set
UserInit(arg) ==
    /\ up_roles = IF arg # RolesOmitted /\ arg.roles # {}
                  THEN arg.roles
                  ELSE {get_default_role}
    /\ up_permissions = update_permissions(up_roles, {})
    /\ up_assigned_by = None
    /\ up_last = [op |-> "User", role |-> None, arg |-> arg]

\* UserPermissions(): the dataclass defaults
UserPermissionsInit ==
    /\ up_roles = {}
    /\ up_permissions = {}
    /\ up_assigned_by = None
    /\ up_last = [op |-> "UserPermissions", role |-> None]

InitRoles ==
    /\ \/ \E arg \in RolesArguments : UserInit(arg)
       \/ UserPermissionsInit
    /\ ValidIdle /\ NoRequests /\ AdminIdle /\ FolderIdle

AddRoleStep ==
    /\ \E role \in UserRoles, by \in Emails : add_role(role, by)
    /\ UNCHANGED <<validVars, requests, adminVars, folderVars>>

RemoveRoleStep ==
    /\ \E role \in UserRoles : remove_role(role)
    /\ UNCHANGED <<validVars, requests, adminVars, folderVars>>

NextRoles == AddRoleStep \/ RemoveRoleStep

SpecRoles == InitRoles /\ [][NextRoles]_vars

\* the union of the registry's permission sets over a role set
PermissionsOf(rs) == UNION {get_role_permissions(r) : r \in rs}

\* C1: after construction and after every add_role / remove_role call the
\* identity's permission set equals the union of permissions_for(r) over
\* its current roles.
C1_PermissionsAreUnionOfRoles ==
    up_permissions = PermissionsOf(up_roles)

\* C1 witness: a remove_role call has shrunk a role set that held
\* Administrator to a non-empty set without it, and the permissions followed.
C1_Witness ==
    /\ up_last.op = "remove_role" /\ up_last.role = USER_ADMINISTRATOR
    /\ up_roles = {REGULAR_USER, GUEST}
    /\ up_permissions = {ACCESS_SECRETS, MANAGE_SECRETS}
    /\ up_assigned_by # None

----------------------------------------------------------------------------
(* RoleManager.can_assign_role / validate_role_assignment *)

InsufficientPermissions == "Insufficient permissions to assign roles"
SelfElevationDenied     == "Cannot assign User Administrator role to yourself"
InvalidRole             == "Invalid role"

\* UserRole.get_all_roles
get_all_roles == UserRoles

\* mutant: any role holder may assign
can_assign_role_any(assigner_roles, target_role) ==
    assigner_roles # {}

\* RoleManager.can_assign_role
can_assign_role(assigner_roles, target_role) ==
    USER_ADMINISTRATOR \in assigner_roles

\* mutant: the self-assignment test is made before the permission test
validate_self_first(assigner_email, assigner_roles, target_email, target_role) ==
    IF assigner_email = target_email /\ target_role = USER_ADMINISTRATOR
    THEN <<FALSE, SelfElevationDenied>>
    ELSE IF ~can_assign_role(assigner_roles, target_role)
    THEN <<FALSE, InsufficientPermissions>>
    ELSE <<TRUE, "">>

\* RoleManager.validate_role_assignment -> (is_valid, error_message)
validate_role_assignment(assigner_email, assigner_roles, target_email, target_role) ==
    IF ~can_assign_role(assigner_roles, target_role)
    THEN <<FALSE, InsufficientPermissions>>
    ELSE IF assigner_email = target_email /\ target_role = USER_ADMINISTRATOR
    THEN <<FALSE, SelfElevationDenied>>
    ELSE IF target_role \notin get_all_roles
    THEN <<FALSE, InvalidRole>>
    ELSE <<TRUE, "">>

ValidateArgs ==
    [assigner_email : Emails, assigner_roles : SUBSET UserRoles,
     target_email : Emails, target_role : UserRoles]

InitValidate ==
    /\ va_args \in ValidateArgs
    /\ va_result = <<>>
    /\ RolesIdle /\ AdminIdle /\ FolderIdle /\ NoRequests

Validate ==
    /\ va_result = <<>>
    /\ va_result' = validate_role_assignment(va_args.assigner_email,
                        va_args.assigner_roles, va_args.target_email,
                        va_args.target_role)
    /\ UNCHANGED <<va_args, roleVars, adminVars, folderVars, requests>>

NextValidate == Validate

SpecValidate == InitValidate /\ [][NextValidate]_vars

\* C3: validate_assignment returns InsufficientPermissions whenever the
\* assigner lacks Administrator (checked first), SelfElevationDenied when an
\* Administrator names their own e-mail as target of the Administrator role,
\* and (True, "") in every other case.
C3_ValidateOutcome ==
    va_result # <<>> =>
        va_result =
            CASE USER_ADMINISTRATOR \notin va_args.assigner_roles ->
                    <<FALSE, InsufficientPermissions>>
              [] /\ USER_ADMINISTRATOR \in va_args.assigner_roles
                 /\ va_args.assigner_email = va_args.target_email
                 /\ va_args.target_role = USER_ADMINISTRATOR ->
                    <<FALSE, SelfElevationDenied>>
              [] OTHER -> <<TRUE, "">>

\* C3 witness: a non-administrator asked for Administrator on their own
\* e-mail and was answered InsufficientPermissions, not SelfElevationDenied.
C3_Witness ==
    /\ va_result = <<FALSE, InsufficientPermissions>>
    /\ va_args.assigner_email = va_args.target_email
    /\ va_args.target_role = USER_ADMINISTRATOR
    /\ va_args.assigner_roles = {REGULAR_USER}

\* C4: the self-elevation check ignores letter case: an Administrator whose
\* e-mail equals the target e-mail up to case, asking for Administrator, is
\* answered SelfElevationDenied.
C4_SelfElevationIgnoresCase ==
    ( /\ va_result # <<>>
      /\ USER_ADMINISTRATOR \in va_args.assigner_roles
      /\ Lower(va_args.assigner_email) = Lower(va_args.target_email)
      /\ va_args.target_role = USER_ADMINISTRATOR )
    => va_result = <<FALSE, SelfElevationDenied>>

----------------------------------------------------------------------------
(* app/auth/models.py: the session representation of a User *)

SYSTEM_ADMINISTRATOR == "System Administrator"
REGULAR_USER_NAME    == "Regular User"
EVE_NAME             == "Eve"

\* an identity that is not one of the demo users
EVE_EMAIL == "eve@test.com"

\* the display name an identity provider reports for an e-mail address: one
\* name per identity, whatever the spelling of the address
NameOf(email) ==
    CASE Lower(email) = ADMIN_EMAIL -> SYSTEM_ADMINISTRATOR
      [] Lower(email) = USER_EMAIL  -> REGULAR_USER_NAME
      [] OTHER -> EVE_NAME

\* UserRole(role_value) for each token, ValueError skipped
ParseRoles(tokens) == {t \in tokens : t \in UserRoles}

\* [role.value for role in roles]
RoleValues(roles) == {r : r \in roles}

\* User.save_to_session of a User with the given fields
SessionOf(email, name, roles) ==
    [authenticated |-> TRUE, email |-> email, name |-> name,
     roles |-> RoleValues(roles),
     permissions |-> update_permissions(roles, {})]

\* Python's None where a User or a user dict is expected
NoUser == [none |-> TRUE]

\* mutant: a token that is no value of UserRole ends the reconstruction
from_session_strict(sess) ==
    IF ~sess.authenticated THEN NoUser
    ELSE IF sess.roles # ParseRoles(sess.roles) THEN [raised |-> "ValueError"]
    ELSE LET roles == UserInitRoles(ParseRoles(sess.roles))
         IN  [email |-> sess.email, name |-> sess.name, roles |-> roles,
              permissions |-> update_permissions(roles, {})]

\* User.from_session: None, or the User rebuilt from the session dict
from_session(sess) ==
    IF ~sess.authenticated THEN NoUser
    ELSE LET roles == UserInitRoles(ParseRoles(sess.roles))
         IN  [email |-> sess.email, name |-> sess.name, roles |-> roles,
              permissions |-> update_permissions(roles, {})]

----------------------------------------------------------------------------
(* app/admin/user_manager.py *)

RemoveInsufficient == "Insufficient permissions to remove roles"
SelfDemotionDenied == "Cannot remove User Administrator role from yourself"
UserNotFound       == "User not found"
RoleAssigned       == "assigned successfully"
RoleRemoved        == "removed successfully"

EmptyHeap == [r \in {} |-> None]

\* a user dict as get_all_users builds it
UserDict(email, name, roles) ==
    [email |-> email, name |-> name, roles |-> RoleValues(roles),
     is_admin |-> USER_ADMINISTRATOR \in roles]

\* the two demo users of get_all_users
demo_users ==
    << [ref |-> 0, d |-> UserDict(ADMIN_EMAIL, SYSTEM_ADMINISTRATOR, {USER_ADMINISTRATOR})],
       [ref |-> 0, d |-> UserDict(USER_EMAIL, REGULAR_USER_NAME, {REGULAR_USER})] >>

\* str comparison of the display names in use:
\* "Eve" < "Regular User" < "System Administrator"
NameLE(a, b) ==
    \/ a = b
    \/ a = EVE_NAME
    \/ (a = REGULAR_USER_NAME /\ b = SYSTEM_ADMINISTRATOR)

\* sorted(users, key=name): stable
RECURSIVE SortByName(_)
SortByName(us) ==
    IF us = <<>> THEN <<>>
    ELSE LET n    == Len(us)
             x    == us[n]
             rest == SortByName(SubSeq(us, 1, n - 1))
             k    == Cardinality({i \in 1..Len(rest) : NameLE(rest[i].d.name, x.d.name)})
         IN  SubSeq(rest, 1, k) \o <<x>> \o SubSeq(rest, k + 1, Len(rest))

\* the cached dicts get_all_users appends: every key other than the session
\* user's e-mail, and none at all without a session user
RECURSIVE CachedUsers(_, _, _)
CachedUsers(cache, hp, cu) ==
    IF cache = <<>> THEN <<>>
    ELSE LET e == Head(cache)
             rest == CachedUsers(Tail(cache), hp, cu)
         IN  IF cu # NoUser /\ e.key # cu.email
             THEN <<[ref |-> e.ref, d |-> hp[e.ref]]>> \o rest
             ELSE rest

\* UserManager.get_all_users: a list of dicts; ref = 0 marks a dict built by
\* this call, ref > 0 the cached dict it is
get_all_users(sess, cache, hp) ==
    LET cu == from_session(sess)
        own == IF cu # NoUser
               THEN <<[ref |-> 0, d |-> UserDict(cu.email, cu.name, cu.roles)]>>
               ELSE <<>>
        users == own \o CachedUsers(cache, hp, cu)
    IN  SortByName(IF users = <<>> THEN demo_users ELSE users)

\* user['email'].lower() == email.lower()
EqIgnoreCase(a, b) == Lower(a) = Lower(b)

\* the first index of a list whose dict has the e-mail, 0 if none; the
\* comparison ignores letter case unless exact is set
FirstMatch(users, email, exact) ==
    LET hits == {i \in 1..Len(users) :
                    IF exact THEN users[i].d.email = email
                    ELSE EqIgnoreCase(users[i].d.email, email)}
    IN  IF hits = {} THEN 0 ELSE CHOOSE i \in hits : \A j \in hits : i <= j

\* mutant: the lookup compares the addresses as written
get_user_by_email_exact(sess, cache, hp, email) ==
    LET users == get_all_users(sess, cache, hp)
        i == FirstMatch(users, email, TRUE)
    IN  IF i = 0 THEN NoUser ELSE users[i]

\* UserManager.get_user_by_email
get_user_by_email(sess, cache, hp, email) ==
    LET users == get_all_users(sess, cache, hp)
        i == FirstMatch(users, email, FALSE)
    IN  IF i = 0 THEN NoUser ELSE users[i]

\* UserManager.get_user_roles
get_user_roles(sess, cache, hp, email) ==
    LET user_data == get_user_by_email(sess, cache, hp, email)
    IN  IF user_data = NoUser THEN {} ELSE ParseRoles(user_data.d.roles)

\* the refs the cache holds
RefsOf(cache) == {cache[i].ref : i \in 1..Len(cache)}

KeysOf(cache) == {cache[i].key : i \in 1..Len(cache)}

\* self._users_cache[key] = <dict ref>: an existing key keeps its place
CachePut(cache, key, ref) ==
    IF key \in KeysOf(cache)
    THEN [i \in 1..Len(cache) |->
            IF cache[i].key = key THEN [key |-> key, ref |-> ref] ELSE cache[i]]
    ELSE Append(cache, [key |-> key, ref |-> ref])

\* the addresses users log in with and the service is called with: one that
\* is no demo user, and the demo user's in two spellings
ServiceEmails == {EVE_EMAIL, "user@example.com", "USER@example.com"}

\* the User performing a call is given by the caller: for each of two
\* addresses one that holds USER_ADMINISTRATOR and one that does not
Assigners ==
    { [email |-> EVE_EMAIL, roles |-> {USER_ADMINISTRATOR}],
      [email |-> EVE_EMAIL, roles |-> {GUEST}],
      [email |-> "USER@example.com",  roles |-> {USER_ADMINISTRATOR, REGULAR_USER}],
      [email |-> "USER@example.com",  roles |-> {REGULAR_USER}] }

\* what the last call was and what it returned; by_admin and self record
\* admin_user.has_role(USER_ADMINISTRATOR) and whether admin_user.email is
\* the target address up to case
Returned(op, a, target, role, ok, msg) ==
    [op |-> op, target |-> target, role |-> role,
     by_admin |-> USER_ADMINISTRATOR \in a.roles,
     self |-> Lower(a.email) = Lower(target),
     ok |-> ok, msg |-> msg]

NoCall(op) ==
    [op |-> op, target |-> None, role |-> None, by_admin |-> FALSE,
     self |-> FALSE, ok |-> FALSE, msg |-> ""]

\* lines 191-215 and 266-294: rewrite the target's dict with new_roles, cache
\* it under target_email, and update the session when it is the target's
StoreRoles(t, target_email, new_roles, sess_roles) ==
    LET newd == [t.d EXCEPT !.roles = RoleValues(new_roles),
                            !.is_admin = USER_ADMINISTRATOR \in new_roles]
        ref  == IF t.ref # 0 THEN t.ref
                ELSE CHOOSE r \in 1..(Len(users_cache) + 1) : r \notin RefsOf(users_cache)
        hp1   == [r \in DOMAIN heap \cup {ref} |-> IF r = ref THEN newd ELSE heap[r]]
        cache == CachePut(users_cache, target_email, ref)
        cu    == from_session(session)
    IN  /\ Len(cache) <= MaxCache
        /\ users_cache' = cache
        /\ heap' = [r \in RefsOf(cache) |-> hp1[r]]
        /\ session' = IF cu # NoUser /\ Lower(cu.email) = Lower(target_email)
                      THEN SessionOf(cu.email, cu.name, sess_roles)
                      ELSE session

\* UserManager.assign_role_to_user
assign_role_to_user(a, target_email, role) ==
    LET v == validate_role_assignment(a.email, a.roles, target_email, role)
        t == get_user_by_email(session, users_cache, heap, target_email)
        cu == from_session(session)
        added == IF cu = NoUser THEN {} ELSE cu.roles \cup {role}
    IN  IF ~v[1]
        THEN /\ last' = Returned("assign", a, target_email, role, FALSE, v[2])
             /\ UNCHANGED <<session, users_cache, heap>>
        ELSE IF t = NoUser
        THEN /\ last' = Returned("assign", a, target_email, role, FALSE, UserNotFound)
             /\ UNCHANGED <<session, users_cache, heap>>
        ELSE /\ StoreRoles(t, target_email, ParseRoles(t.d.roles) \cup {role}, added)
             /\ last' = Returned("assign", a, target_email, role, TRUE, RoleAssigned)

\* mutant: the self-removal test compares the addresses as written
is_self_admin_removal_exact(admin_email, target_email, role) ==
    admin_email = target_email /\ role = USER_ADMINISTRATOR

\* remove_role_from_user, lines 257-258
is_self_admin_removal(admin_email, target_email, role) ==
    Lower(admin_email) = Lower(target_email) /\ role = USER_ADMINISTRATOR

\* mutant: no self-removal test
remove_role_from_user_unguarded(a, target_email, role) ==
    LET t == get_user_by_email(session, users_cache, heap, target_email)
        left == ParseRoles(t.d.roles) \ {role}
        cu == from_session(session)
        discarded == IF cu = NoUser THEN {} ELSE cu.roles \ {role}
    IN  IF USER_ADMINISTRATOR \notin a.roles
        THEN /\ last' = Returned("remove", a, target_email, role, FALSE, RemoveInsufficient)
             /\ UNCHANGED <<session, users_cache, heap>>
        ELSE IF t = NoUser
        THEN /\ last' = Returned("remove", a, target_email, role, FALSE, UserNotFound)
             /\ UNCHANGED <<session, users_cache, heap>>
        ELSE /\ StoreRoles(t, target_email,
                           IF left = {} THEN {get_default_role} ELSE left, discarded)
             /\ last' = Returned("remove", a, target_email, role, TRUE, RoleRemoved)

\* UserManager.remove_role_from_user
remove_role_from_user(a, target_email, role) ==
    LET t == get_user_by_email(session, users_cache, heap, target_email)
        left == ParseRoles(t.d.roles) \ {role}
        cu == from_session(session)
        discarded == IF cu = NoUser THEN {} ELSE cu.roles \ {role}
    IN  IF USER_ADMINISTRATOR \notin a.roles
        THEN /\ last' = Returned("remove", a, target_email, role, FALSE, RemoveInsufficient)
             /\ UNCHANGED <<session, users_cache, heap>>
        ELSE IF is_self_admin_removal(a.email, target_email, role)
        THEN /\ last' = Returned("remove", a, target_email, role, FALSE, SelfDemotionDenied)
             /\ UNCHANGED <<session, users_cache, heap>>
        ELSE IF t = NoUser
        THEN /\ last' = Returned("remove", a, target_email, role, FALSE, UserNotFound)
             /\ UNCHANGED <<session, users_cache, heap>>
        ELSE /\ StoreRoles(t, target_email,
                           IF left = {} THEN {get_default_role} ELSE left, discarded)
             /\ last' = Returned("remove", a, target_email, role, TRUE, RoleRemoved)

\* UserManager.__init__ : the state after construction
InitAdmin ==
    /\ session = NoSession
    /\ users_cache = <<>>
    /\ heap = EmptyHeap
    /\ last = NoCall("UserManager")
    /\ RolesIdle /\ ValidIdle /\ NoRequests /\ FolderIdle

\* a login: User(email, name, provider, roles=rs).save_to_session()
SaveToSession ==
    /\ \E email \in ServiceEmails, rs \in SUBSET UserRoles :
          session' = SessionOf(email, NameOf(email), UserInitRoles(rs))
    /\ last' = NoCall("save_to_session")
    /\ UNCHANGED <<users_cache, heap, roleVars, validVars, requests, folderVars>>

\* User.logout
Logout ==
    /\ session.authenticated
    /\ session' = NoSession
    /\ last' = NoCall("logout")
    /\ UNCHANGED <<users_cache, heap, roleVars, validVars, requests, folderVars>>

\* the admin routes build a new UserManager for each request
NewUserManager ==
    /\ users_cache # <<>>
    /\ users_cache' = <<>>
    /\ heap' = EmptyHeap
    /\ last' = NoCall("UserManager")
    /\ UNCHANGED <<session, roleVars, validVars, requests, folderVars>>

AssignRole ==
    /\ \E a \in Assigners, target_email \in ServiceEmails, role \in UserRoles :
          assign_role_to_user(a, target_email, role)
    /\ UNCHANGED <<roleVars, validVars, requests, folderVars>>

RemoveRole ==
    /\ \E a \in Assigners, target_email \in ServiceEmails, role \in UserRoles :
          remove_role_from_user(a, target_email, role)
    /\ UNCHANGED <<roleVars, validVars, requests, folderVars>>

NextAdmin == SaveToSession \/ Logout \/ NewUserManager \/ AssignRole \/ RemoveRole

SpecAdmin == InitAdmin /\ [][NextAdmin]_vars

ServiceUnchanged == UNCHANGED <<session, users_cache, heap>>

\* the roles an address holds in the session dict and in the cached dicts
HeldRoles(sess, cache, hp, email) ==
    (IF sess.authenticated /\ Lower(sess.email) = Lower(email)
     THEN ParseRoles(sess.roles) ELSE {})
    \cup UNION {ParseRoles(hp[cache[i].ref].roles) :
                  i \in {j \in 1..Len(cache) : Lower(cache[j].key) = Lower(email)}}

\* C2: an assign or remove call by an assigner without Administrator returns
\* InsufficientPermissions and changes neither the session nor any cached
\* record; hence a call after which some address holds a role it did not
\* hold before was made by an Administrator.
C2_NonAdminCallChangesNothing ==
    [][ (last'.op \in {"assign", "remove"}) =>
          /\ ~last'.by_admin =>
                /\ ~last'.ok
                /\ last'.msg = IF last'.op = "assign" THEN InsufficientPermissions
                               ELSE RemoveInsufficient
                /\ ServiceUnchanged
          /\ (\E e \in ServiceEmails :
                ~(HeldRoles(session', users_cache', heap', e)
                    \subseteq HeldRoles(session, users_cache, heap, e)))
             => last'.by_admin ]_vars

\* C2 witness: a Regular User asked for Administrator for an address the
\* lookup finds, and was refused.
C2_Witness ==
    /\ last.op = "assign" /\ ~last.by_admin /\ ~last.ok
    /\ last.msg = InsufficientPermissions
    /\ last.role = USER_ADMINISTRATOR
    /\ get_user_by_email(session, users_cache, heap, last.target) # NoUser
    /\ session.authenticated

\* C5: remove returns InsufficientPermissions to an assigner without
\* Administrator, otherwise SelfDemotionDenied when the assigner's address is
\* the target's up to letter case and the role is Administrator; both answers
\* are given whether or not the target exists and leave all role sets as
\* they were.
C5_RemoveDenials ==
    [][ (last'.op = "remove") =>
          /\ ~last'.by_admin =>
                (last'.msg = RemoveInsufficient /\ ~last'.ok /\ ServiceUnchanged)
          /\ (last'.by_admin /\ last'.self /\ last'.role = USER_ADMINISTRATOR) =>
                (last'.msg = SelfDemotionDenied /\ ~last'.ok /\ ServiceUnchanged) ]_vars

\* C5 witness: an Administrator named their own address in another spelling,
\* no record of it could be looked up, and the answer was SelfDemotionDenied.
C5_Witness ==
    /\ last.op = "remove" /\ last.msg = SelfDemotionDenied
    /\ last.by_admin /\ last.self
    /\ last.target = "user@example.com"
    /\ get_user_by_email(session, users_cache, heap, last.target) = NoUser

\* C6: after a successful remove the target holds at least one role, both
\* in the record the service keeps for it and, when the target is the
\* session identity, in the role list written to the session.
C6_RemoveLeavesARole ==
    (last.op = "remove" /\ last.ok) =>
        /\ \A i \in 1..Len(users_cache) :
              users_cache[i].key = last.target =>
                  ParseRoles(heap[users_cache[i].ref].roles) # {}
        /\ (session.authenticated /\ Lower(session.email) = Lower(last.target))
              => session.roles # {}

\* C7: after a successful assign a lookup of the target's roles through the
\* service reports the role, and the roles it reports for every other
\* identity are what they were.
C7_AssignedRoleIsReported ==
    [][ (last'.op = "assign" /\ last'.ok) =>
          /\ last'.role \in get_user_roles(session', users_cache', heap', last'.target)
          /\ \A e \in ServiceEmails \cup {ADMIN_EMAIL} :
                Lower(e) # Lower(last'.target) =>
                    get_user_roles(session', users_cache', heap', e)
                        = get_user_roles(session, users_cache, heap, e) ]_vars

\* an identity record exists for the address: some user the service lists
\* has it, letter case ignored
RecordExists(sess, cache, hp, email) ==
    LET users == get_all_users(sess, cache, hp)
    IN  \E i \in 1..Len(users) : Lower(users[i].d.email) = Lower(email)

----------------------------------------------------------------------------
(* app/models.py: Folder.has_access, Folder.grant_access, FolderPermission *)

READ  == "read"
WRITE == "write"
ADMIN == "admin"

AccessType == {READ, WRITE, ADMIN}

\* the addresses folders are created by, granted to and queried with
FolderEmails == {"admin@example.com", "ADMIN@example.com", "user@example.com"}

\* FolderPermission.__init__
FolderPermission(folder_id, user_email, can_read, can_write, can_admin) ==
    [folder_id |-> folder_id, user_email |-> user_email,
     can_read |-> can_read, can_write |-> can_write, can_admin |-> can_admin]

\* folder.permissions: the indices of the folder's rows, in insertion order
RowsOfFolder(rows, folder_id) ==
    {i \in 1..Len(rows) : rows[i].folder_id = folder_id}

\* the flag has_access / grant_access pair with an access type
Flag(row, access_type) ==
    CASE access_type = READ  -> row.can_read
      [] access_type = WRITE -> row.can_write
      [] access_type = ADMIN -> row.can_admin

\* the first of the folder's rows whose user_email is the address, 0 if none
FirstRow(rows, folder_id, user_email) ==
    LET hits == {i \in RowsOfFolder(rows, folder_id) : rows[i].user_email = user_email}
    IN  IF hits = {} THEN 0 ELSE CHOOSE i \in hits : \A j \in hits : i <= j

\* mutant: the creator is treated like any other user
has_access_rows_only(fs, rows, folder_id, user_email, access_type) ==
    LET i == FirstRow(rows, folder_id, user_email)
    IN  IF i = 0 THEN FALSE ELSE Flag(rows[i], access_type)

\* mutant: a row of the parent folder counts when the folder has none
has_access_inherited(fs, rows, folder_id, user_email, access_type) ==
    LET i == FirstRow(rows, folder_id, user_email)
        p == fs[folder_id].parent_id
        j == IF p = 0 THEN 0 ELSE FirstRow(rows, p, user_email)
    IN  IF fs[folder_id].created_by = user_email THEN TRUE
        ELSE IF i # 0 THEN Flag(rows[i], access_type)
        ELSE IF j # 0 THEN Flag(rows[j], access_type)
        ELSE FALSE

\* Folder.has_access
has_access(fs, rows, folder_id, user_email, access_type) ==
    IF fs[folder_id].created_by = user_email THEN TRUE
    ELSE LET i == FirstRow(rows, folder_id, user_email)
         IN  IF i = 0 THEN FALSE ELSE Flag(rows[i], access_type)

\* mutant: the row is set to the granted level, higher flags cleared
Escalate_set_level(row, access_type) ==
    CASE access_type = READ  -> [row EXCEPT !.can_read = TRUE, !.can_write = FALSE,
                                            !.can_admin = FALSE]
      [] access_type = WRITE -> [row EXCEPT !.can_read = TRUE, !.can_write = TRUE,
                                            !.can_admin = FALSE]
      [] access_type = ADMIN -> [row EXCEPT !.can_read = TRUE, !.can_write = TRUE,
                                            !.can_admin = TRUE]

\* mutant: each access type sets its own flag only
Escalate_own_flag(row, access_type) ==
    CASE access_type = READ  -> [row EXCEPT !.can_read = TRUE]
      [] access_type = WRITE -> [row EXCEPT !.can_write = TRUE]
      [] access_type = ADMIN -> [row EXCEPT !.can_admin = TRUE]

\* the flags grant_access sets for an access type
Escalate(row, access_type) ==
    CASE access_type = READ  -> [row EXCEPT !.can_read = TRUE]
      [] access_type = WRITE -> [row EXCEPT !.can_read = TRUE, !.can_write = TRUE]
      [] access_type = ADMIN -> [row EXCEPT !.can_read = TRUE, !.can_write = TRUE,
                                            !.can_admin = TRUE]

\* Folder.grant_access: the rows after the call
grant_access(rows, folder_id, user_email, access_type) ==
    LET i == FirstRow(rows, folder_id, user_email)
    IN  IF i = 0
        THEN Append(rows, Escalate(FolderPermission(folder_id, user_email,
                                                    TRUE, FALSE, FALSE), access_type))
        ELSE [rows EXCEPT ![i] = Escalate(rows[i], access_type)]

\* an empty database
InitFolder ==
    /\ folders = <<>>
    /\ permissions = <<>>
    /\ StoreIdle
    /\ RolesIdle /\ ValidIdle /\ NoRequests /\ AdminIdle

\* Folder(name, path, created_by) added and committed
NewFolder ==
    /\ Len(folders) < MaxFolders
    /\ \E created_by \in FolderEmails :
          folders' = Append(folders, [created_by |-> created_by])
    /\ UNCHANGED <<permissions, storeVars, roleVars, validVars, requests, adminVars>>

\* FolderPermission(folder_id, user_email, granted_by, can_read, can_write,
\* can_admin) added and committed
NewFolderPermission ==
    /\ Len(permissions) < MaxRows
    /\ \E folder_id \in 1..Len(folders), user_email \in FolderEmails,
          r \in BOOLEAN, w \in BOOLEAN, a \in BOOLEAN :
          permissions' = Append(permissions,
                                FolderPermission(folder_id, user_email, r, w, a))
    /\ UNCHANGED <<folders, storeVars, roleVars, validVars, requests, adminVars>>

\* folder.grant_access(user_email, access_type, granted_by) and commit
GrantAccess ==
    /\ \E folder_id \in 1..Len(folders), user_email \in FolderEmails,
          access_type \in AccessType :
          /\ permissions' = grant_access(permissions, folder_id, user_email, access_type)
          /\ Len(permissions') <= MaxRows
    /\ UNCHANGED <<folders, storeVars, roleVars, validVars, requests, adminVars>>

NextFolder == NewFolder \/ NewFolderPermission \/ GrantAccess

SpecFolder == InitFolder /\ [][NextFolder]_vars

\* C9: whatever rows a folder has, its creator has Read, Write and Admin
\* access, and a user who is not the creator and whom no row of the folder
\* names has none of the three.
C9_CreatorAlwaysOthersNever ==
    \A f \in 1..Len(folders), t \in AccessType :
        /\ has_access(folders, permissions, f, folders[f].created_by, t)
        /\ \A e \in FolderEmails :
              ( /\ e # folders[f].created_by
                /\ \A i \in RowsOfFolder(permissions, f) : permissions[i].user_email # e )
              => ~has_access(folders, permissions, f, e, t)

\* C9 witness: a folder whose creator has a row with every flag cleared,
\* beside a folder on which another user has no row.
C9_Witness ==
    /\ Len(folders) = 2
    /\ folders[1].created_by # folders[2].created_by
    /\ \E i \in RowsOfFolder(permissions, 1) :
          /\ permissions[i].user_email = folders[1].created_by
          /\ ~permissions[i].can_read /\ ~permissions[i].can_write
          /\ ~permissions[i].can_admin
    /\ RowsOfFolder(permissions, 2) = {}
    /\ has_access(folders, permissions, 1, folders[1].created_by, ADMIN)
    /\ ~has_access(folders, permissions, 2, folders[1].created_by, READ)

\* C10: has_access ignores letter case: an address equal to created_by up
\* to case has every access type, and a row answers for every address equal
\* to its user_email up to case.
C10_AccessIgnoresCase ==
    \A f \in 1..Len(folders), t \in AccessType, e \in FolderEmails :
        /\ Lower(e) = Lower(folders[f].created_by)
              => has_access(folders, permissions, f, e, t)
        /\ \A i \in RowsOfFolder(permissions, f) :
              ( /\ Lower(e) # Lower(folders[f].created_by)
                /\ Lower(permissions[i].user_email) = Lower(e)
                /\ \A j \in RowsOfFolder(permissions, f) :
                      Lower(permissions[j].user_email) = Lower(e) => j = i )
              => has_access(folders, permissions, f, e, t) = Flag(permissions[i], t)

----------------------------------------------------------------------------
(* app/models.py: a folder tree whose rows come from grant_access alone *)

\* parent_id of a root folder: None, written 0 (no row has id 0, and the
\* routes test "if parent_id")
NoParent == 0

\* Folder.__init__ and the column defaults
Folder(path, created_by, parent_id) ==
    [path |-> path, created_by |-> created_by, parent_id |-> parent_id,
     is_active |-> TRUE]

\* the path the folder with this id is created with; column "path" is unique
PathOf(id) ==
    CASE id = 1 -> "/f1" [] id = 2 -> "/f2" [] id = 3 -> "/f3" [] OTHER -> "/f4"

\* the users who create the folders of the tree
Creators == {"admin@example.com", "user@example.com"}

\* the addresses access is granted to: one identity in two spellings, the
\* creator of some folders and of others not
Grantees == {"admin@example.com", "ADMIN@example.com"}

\* an empty database
InitGrant ==
    /\ folders = <<>>
    /\ permissions = <<>>
    /\ StoreIdle
    /\ RolesIdle /\ ValidIdle /\ NoRequests /\ AdminIdle

\* Folder(name, path, created_by, parent_id=...) added and committed
AddFolder ==
    /\ Len(folders) < MaxFolders
    /\ \E created_by \in Creators, parent_id \in 0..Len(folders) :
          folders' = Append(folders,
                            Folder(PathOf(Len(folders) + 1), created_by, parent_id))
    /\ UNCHANGED <<permissions, storeVars, roleVars, validVars, requests, adminVars>>

\* folder.grant_access(user_email, access_type, granted_by) and commit
Grant ==
    /\ \E folder_id \in 1..Len(folders), user_email \in Grantees,
          access_type \in AccessType :
          /\ permissions' = grant_access(permissions, folder_id, user_email, access_type)
          /\ Len(permissions') <= MaxGrants
    /\ UNCHANGED <<folders, storeVars, roleVars, validVars, requests, adminVars>>

NextGrant == AddFolder \/ Grant

SpecGrant == InitGrant /\ [][NextGrant]_vars

\* the access types has_access answers True for
AccessOf(fs, rows, folder_id, user_email) ==
    {t \in AccessType : has_access(fs, rows, folder_id, user_email, t)}

\* C11: when a folder has no row for a user who is not its creator, a grant
\* of Read gives that user Read only, a grant of Write gives Read and Write
\* but not Admin, and a grant of Admin gives all three.
C11_FirstGrantGivesLevel ==
    [][ \A f \in 1..Len(folders), u \in Grantees, t \in AccessType :
          ( /\ u # folders[f].created_by
            /\ FirstRow(permissions, f, u) = 0
            /\ permissions' = grant_access(permissions, f, u, t) )
          => AccessOf(folders', permissions', f, u)
                = CASE t = READ  -> {READ}
                    [] t = WRITE -> {READ, WRITE}
                    [] t = ADMIN -> {READ, WRITE, ADMIN} ]_vars

\* C11 witness: a user who is not the creator was granted Write on a folder
\* and holds Read and Write there, not Admin.
C11_Witness ==
    \E f \in 1..Len(folders) :
        /\ folders[f].created_by = "user@example.com"
        /\ Len(permissions) = 1
        /\ permissions[1].folder_id = f
        /\ permissions[1].user_email = "admin@example.com"
        /\ AccessOf(folders, permissions, f, "admin@example.com") = {READ, WRITE}

\* C12: over every sequence of grant_access calls, access a user has to a
\* folder is never lost: once has_access is true for a folder, a user and an
\* access type it is true after every later step; granting Read or Write
\* after Admin leaves Admin in place.
C12_GrantsNeverDowngrade ==
    [][ \A f \in 1..Len(folders), u \in Grantees \cup Creators, t \in AccessType :
          has_access(folders, permissions, f, u, t)
              => has_access(folders', permissions', f, u, t) ]_vars

\* C12 witness: a user holds Admin on a folder through a row, and a later
\* grant has added a second row.
C12_Witness ==
    /\ Len(permissions) = 2
    /\ permissions[1].can_admin
    /\ permissions[1].user_email # folders[permissions[1].folder_id].created_by
    /\ AccessOf(folders, permissions, permissions[1].folder_id,
                permissions[1].user_email) = AccessType

\* C13: after every sequence of grant_access calls each folder has at most
\* one row per grantee, two addresses that differ only in letter case naming
\* the same grantee.
C13_OneRowPerGrantee ==
    \A i, j \in 1..Len(permissions) :
        ( /\ permissions[i].folder_id = permissions[j].folder_id
          /\ Lower(permissions[i].user_email) = Lower(permissions[j].user_email) )
        => i = j

\* the rows of one folder, as a table of their own
OwnRows(rows, folder_id) ==
    SelectSeq(rows, LAMBDA row : row.folder_id = folder_id)

\* C14: a grant on a folder changes has_access for that folder only: for
\* every other folder of the tree, ancestors and descendants included, every
\* user has the access after the grant that they had before it; and the
\* access a user has to a folder is what the folder's creator and the
\* folder's own rows give.
C14_NoInheritance ==
    /\ [][ permissions' # permissions =>
            \A g \in 1..Len(folders), u \in Grantees, t \in AccessType :
              permissions' = grant_access(permissions, g, u, t)
              => \A f \in (1..Len(folders)) \ {g}, e \in Grantees \cup Creators :
                    AccessOf(folders', permissions', f, e)
                        = AccessOf(folders, permissions, f, e) ]_vars
    /\ [](\A f \in 1..Len(folders), e \in Grantees \cup Creators :
              AccessOf(folders, permissions, f, e)
                  = AccessOf(folders, OwnRows(permissions, f), f, e))

\* C14 witness: a user holds Admin on a parent folder through a row and has
\* no access to its child, which another user created.
C14_Witness ==
    \E f \in 1..Len(folders) :
        LET p == folders[f].parent_id
        IN  /\ p # NoParent
            /\ folders[f].created_by = "user@example.com"
            /\ folders[p].created_by = "user@example.com"
            /\ AccessOf(folders, permissions, p, "admin@example.com") = AccessType
            /\ AccessOf(folders, permissions, f, "admin@example.com") = {}

----------------------------------------------------------------------------
(* app/models.py: Secret and its cipher                                    *)
(*                                                                         *)
(* Values are written as records so that a str, its bytes, a Fernet token  *)
(* and its base64 text are different things: [str |-> s] is a Python str,  *)
(* [bytes |-> s] its UTF-8 bytes, [key |-> k, data |-> s] the token Fernet *)
(* makes of those bytes under key k, [b64 |-> t] the base64 bytes of token *)
(* t and [ascii |-> b] the str of those bytes.  A token authenticates      *)
(* under the key that made it and under no other; its timestamp and IV     *)
(* are not represented.                                                    *)

Str(s) == [str |-> s]

\* str.encode()
encode(value) == [bytes |-> value.str]

\* bytes.decode() of plaintext bytes
decode(b) == [str |-> b.bytes]

\* base64.b64encode(token).decode()
b64encode(token) == [ascii |-> [b64 |-> token]]

\* base64.b64decode(text.encode())
b64decode(text) == text.ascii.b64

\* the key strings a deployment may put in SECRETS_ENCRYPTION_KEY; "bad" is
\* not 32 url-safe base64-encoded bytes
EnvKeys == {"K1", "K2", "bad"}

NoKey == [nokey |-> TRUE]

\* Secret._get_encryption_key: the configured key, or when none is set the
\* next key os.urandom gives
get_encryption_key(env, drawn) ==
    IF env = None \/ env = "" THEN [urandom |-> drawn + 1] ELSE [env |-> env]

\* the number of keys drawn after the call
Drawn(env, drawn) == IF env = None \/ env = "" THEN drawn + 1 ELSE drawn

\* Fernet(key) raises ValueError unless the key is 32 encoded bytes
ValidKey(key) == "urandom" \in DOMAIN key \/ key.env # "bad"

\* what a call returned or raised
Ok(value) == [ok |-> TRUE, value |-> value]
Done == [ok |-> TRUE]
Raise(error) == [ok |-> FALSE, error |-> error]

\* Fernet(key).encrypt(data)
fernet_encrypt(key, data) == [key |-> key, data |-> data.bytes]

\* mutant: the token is accepted whatever key made it
fernet_decrypt_any(key, token) == Ok([bytes |-> token.data])

\* Fernet(key).decrypt(token): InvalidToken unless the key made the token
fernet_decrypt(key, token) ==
    IF token.key = key THEN Ok([bytes |-> token.data]) ELSE Raise("InvalidToken")

\* Secret._encrypt_value with the key _get_encryption_key returned
encrypt_value(value, key) ==
    IF ~ValidKey(key) THEN Raise("ValueError")
    ELSE Ok(b64encode(fernet_encrypt(key, encode(value))))

\* Secret._decrypt_value with the key _get_encryption_key returned
decrypt_value(encrypted_value, key) ==
    IF ~ValidKey(key) THEN Raise("ValueError")
    ELSE LET r == fernet_decrypt(key, b64decode(encrypted_value))
         IN  IF r.ok THEN Ok(decode(r.value)) ELSE r

\* Secret.__init__ and the column defaults
Secret(name, encrypted_value, folder_id, created_by) ==
    [name |-> name, encrypted_value |-> encrypted_value, folder_id |-> folder_id,
     created_by |-> created_by, is_active |-> TRUE]

\* the plaintext passed to a secret and the key setting it was passed under
Given(value, env) == [value |-> value, env |-> env]

\* the plaintexts callers pass
Plaintexts == {"", "alpha", "beta"}

\* the last Secret call: which secret, the key it used, what came back
SecretCall(op, id, key, out) == [op |-> op, id |-> id, key |-> key, out |-> out]

\* a database with no secret; the key setting is the deployment's
InitCipher ==
    /\ secrets = <<>>
    /\ given = <<>>
    /\ environ \in {None} \cup EnvKeys
    /\ urandom = 0
    /\ result = [op |-> "idle"]
    /\ folders = <<>>
    /\ permissions = <<>>
    /\ RolesIdle /\ ValidIdle /\ NoRequests /\ AdminIdle

\* os.environ["SECRETS_ENCRYPTION_KEY"] set or removed
SetEnviron ==
    /\ \E env \in {None} \cup EnvKeys : environ' = env
    /\ result' = [op |-> "environ"]
    /\ UNCHANGED <<secrets, given, urandom, folders, permissions,
                   roleVars, validVars, requests, adminVars>>

\* Secret(name, value, folder_id, created_by), added and committed
NewSecret ==
    /\ Len(secrets) < MaxSecrets
    /\ Drawn(environ, urandom) <= MaxRandom
    /\ \E value \in Plaintexts :
          LET key == get_encryption_key(environ, urandom)
              ev  == encrypt_value(Str(value), key)
              id  == Len(secrets) + 1
          IN  IF value = ""
              THEN /\ result' = SecretCall("Secret", id, NoKey, Raise("ValueError"))
                   /\ UNCHANGED <<secrets, given, urandom>>
              ELSE /\ urandom' = Drawn(environ, urandom)
                   /\ result' = SecretCall("Secret", id, key,
                                           IF ev.ok THEN Done ELSE ev)
                   /\ IF ev.ok
                      THEN /\ secrets' = Append(secrets,
                                  Secret("api_key", ev.value, 1, "admin@example.com"))
                           /\ given' = Append(given, Given(Str(value), environ))
                      ELSE UNCHANGED <<secrets, given>>
    /\ UNCHANGED <<environ, folders, permissions,
                   roleVars, validVars, requests, adminVars>>

\* secret.set_value(value) and commit
SetValue ==
    /\ Drawn(environ, urandom) <= MaxRandom
    /\ \E id \in 1..Len(secrets), value \in Plaintexts :
          LET key == get_encryption_key(environ, urandom)
              ev  == encrypt_value(Str(value), key)
          IN  /\ urandom' = Drawn(environ, urandom)
              /\ result' = SecretCall("set_value", id, key, IF ev.ok THEN Done ELSE ev)
              /\ IF ev.ok
                 THEN /\ secrets' = [secrets EXCEPT ![id].encrypted_value = ev.value]
                      /\ given' = [given EXCEPT ![id] = Given(Str(value), environ)]
                 ELSE UNCHANGED <<secrets, given>>
    /\ UNCHANGED <<environ, folders, permissions,
                   roleVars, validVars, requests, adminVars>>

\* secret.get_value()
GetValue ==
    /\ Drawn(environ, urandom) <= MaxRandom
    /\ \E id \in 1..Len(secrets) :
          LET key == get_encryption_key(environ, urandom)
          IN  /\ urandom' = Drawn(environ, urandom)
              /\ result' = SecretCall("get_value", id, key,
                                      decrypt_value(secrets[id].encrypted_value, key))
    /\ UNCHANGED <<secrets, given, environ, folders, permissions,
                   roleVars, validVars, requests, adminVars>>

NextCipher == SetEnviron \/ NewSecret \/ SetValue \/ GetValue

SpecCipher == InitCipher /\ [][NextCipher]_vars

C18_ReadAfterWrite ==
    [][ /\ (result'.op = "get_value" /\ environ = given[result'.id].env)
              => result'.out = Ok(given[result'.id].value)
        /\ \A id \in 1..Len(secrets') :
              secrets'[id].encrypted_value # given'[id].value ]_vars

\* C19: no secret value is encrypted or decrypted with a key generated for
\* the call: every key a Secret call used is the configured one.
C19_NoKeyGeneratedPerCall ==
    /\ urandom = 0
    /\ result.op \in {"Secret", "set_value", "get_value"}
          => "urandom" \notin DOMAIN result.key

----------------------------------------------------------------------------
(* app/folders/routes.py: the folder API, behind require_permission *)

\* the users who log in: an administrator, a regular user, and the regular
\* user's address after its roles were reduced to Guest
RouteUsers ==
    { [email |-> "admin@example.com", roles |-> {USER_ADMINISTRATOR}],
      [email |-> "user@example.com",  roles |-> {REGULAR_USER}],
      [email |-> "user@example.com",  roles |-> {GUEST}] }

\* mutant: any logged-in user reaches the view
Permitted_any_user(user) == user # NoUser

\* request fields as clients send them
RequestNames  == {"", "docs"}
RequestPaths  == {"prod", "/prod", " /prod ", "/dev"}
RequestEmails == {"", "admin@example.com", "user@example.com"}
RequestTypes  == {"read", "write", "admin", "owner"}
SecretNames   == {"", "api_key"}
SecretValues  == {"", "alpha"}

\* str.strip() on the strings above
Strip(str) == IF str = " /prod " THEN "/prod" ELSE str

\* str.startswith("/") on the stripped strings above
StartsWithSlash(str) == str \in {"/prod", "/dev"}

\* require_permission(Permission.MANAGE_SECRETS): the request reaches the view
Permitted(user) == user # NoUser /\ MANAGE_SECRETS \in user.permissions

\* Folder.query.filter_by(id=folder_id, is_active=True).first() finds a row
ActiveFolder(fs, folder_id) ==
    folder_id \in 1..Len(fs) /\ fs[folder_id].is_active

\* Folder.query.filter_by(path=path, is_active=True).first() finds a row
ActivePath(fs, path) ==
    \E i \in 1..Len(fs) : fs[i].path = path /\ fs[i].is_active

\* the INSERT breaks the unique constraint on folders.path
PathTaken(fs, path) == \E i \in 1..Len(fs) : fs[i].path = path

\* Secret.query.filter_by(folder_id, name, is_active=True).first() finds a row
ActiveSecret(secs, folder_id, name) ==
    \E i \in 1..Len(secs) :
        secs[i].folder_id = folder_id /\ secs[i].name = name /\ secs[i].is_active

\* mutant: the path is not looked up before the folder is made
api_create_folder_no_lookup(fs, rows, user, name, path, parent_id) ==
    IF ~Permitted(user) THEN 302
    ELSE IF Strip(name) = "" THEN 400
    ELSE IF Strip(path) = "" THEN 400
    ELSE IF ~StartsWithSlash(Strip(path)) THEN 400
    ELSE IF parent_id # NoParent /\ ~ActiveFolder(fs, parent_id) THEN 404
    ELSE IF parent_id # NoParent
            /\ ~has_access(fs, rows, parent_id, user.email, WRITE) THEN 403
    ELSE IF PathTaken(fs, Strip(path)) THEN 500
    ELSE 201

\* api_create_folder: the status it answers with
api_create_folder(fs, rows, user, name, path, parent_id) ==
    IF ~Permitted(user) THEN 302
    ELSE IF Strip(name) = "" THEN 400
    ELSE IF Strip(path) = "" THEN 400
    ELSE IF ~StartsWithSlash(Strip(path)) THEN 400
    ELSE IF ActivePath(fs, Strip(path)) THEN 409
    ELSE IF parent_id # NoParent /\ ~ActiveFolder(fs, parent_id) THEN 404
    ELSE IF parent_id # NoParent
            /\ ~has_access(fs, rows, parent_id, user.email, WRITE) THEN 403
    ELSE IF PathTaken(fs, Strip(path)) THEN 500
    ELSE 201

\* mutant: the name is not looked up before the secret is made
api_create_secret_no_lookup(fs, rows, secs, env, drawn, user, folder_id, name, value) ==
    IF ~Permitted(user) THEN 302
    ELSE IF ~ActiveFolder(fs, folder_id) THEN 404
    ELSE IF ~has_access(fs, rows, folder_id, user.email, WRITE) THEN 403
    ELSE IF Strip(name) = "" THEN 400
    ELSE IF Strip(value) = "" THEN 400
    ELSE IF ~ValidKey(get_encryption_key(env, drawn)) THEN 500
    ELSE 201

\* mutant: Read access is enough to create a secret
api_create_secret_read(fs, rows, secs, env, drawn, user, folder_id, name, value) ==
    IF ~Permitted(user) THEN 302
    ELSE IF ~ActiveFolder(fs, folder_id) THEN 404
    ELSE IF ~has_access(fs, rows, folder_id, user.email, READ) THEN 403
    ELSE IF Strip(name) = "" THEN 400
    ELSE IF Strip(value) = "" THEN 400
    ELSE IF ActiveSecret(secs, folder_id, Strip(name)) THEN 409
    ELSE IF ~ValidKey(get_encryption_key(env, drawn)) THEN 500
    ELSE 201

\* api_create_secret: the status it answers with
api_create_secret(fs, rows, secs, env, drawn, user, folder_id, name, value) ==
    IF ~Permitted(user) THEN 302
    ELSE IF ~ActiveFolder(fs, folder_id) THEN 404
    ELSE IF ~has_access(fs, rows, folder_id, user.email, WRITE) THEN 403
    ELSE IF Strip(name) = "" THEN 400
    ELSE IF Strip(value) = "" THEN 400
    ELSE IF ActiveSecret(secs, folder_id, Strip(name)) THEN 409
    ELSE IF ~ValidKey(get_encryption_key(env, drawn)) THEN 500
    ELSE 201

\* mutant: Write access is enough to grant
api_grant_folder_permission_write(fs, rows, user, folder_id, user_email, access_type) ==
    IF ~Permitted(user) THEN 302
    ELSE IF ~ActiveFolder(fs, folder_id) THEN 404
    ELSE IF ~has_access(fs, rows, folder_id, user.email, WRITE) THEN 403
    ELSE IF Strip(user_email) = "" THEN 400
    ELSE IF Strip(access_type) \notin {"read", "write", "admin"} THEN 400
    ELSE 200

\* api_grant_folder_permission: the status it answers with
api_grant_folder_permission(fs, rows, user, folder_id, user_email, access_type) ==
    IF ~Permitted(user) THEN 302
    ELSE IF ~ActiveFolder(fs, folder_id) THEN 404
    ELSE IF ~has_access(fs, rows, folder_id, user.email, ADMIN) THEN 403
    ELSE IF Strip(user_email) = "" THEN 400
    ELSE IF Strip(access_type) \notin {"read", "write", "admin"} THEN 400
    ELSE 200

\* an empty database; the deployment configures a key
InitRoutes ==
    /\ folders = <<>>
    /\ permissions = <<>>
    /\ secrets = <<>>
    /\ given = <<>>
    /\ environ = "K1"
    /\ urandom = 0
    /\ result = [op |-> "idle"]
    /\ session = NoSession
    /\ users_cache = <<>>
    /\ heap = <<>>
    /\ last = [op |-> "idle"]
    /\ RolesIdle /\ ValidIdle /\ NoRequests

\* a login: User(email, name, provider, roles).save_to_session()
Login ==
    /\ \E u \in RouteUsers :
          session' = SessionOf(u.email, NameOf(u.email), u.roles)
    /\ UNCHANGED <<folders, permissions, secrets, given, environ, urandom, result,
                   users_cache, heap, last, roleVars, validVars, requests>>

\* POST /api/folders
ApiCreateFolder ==
    /\ \E name \in RequestNames, path \in RequestPaths,
          parent_id \in 0..(Len(folders) + 1) :
          LET user   == from_session(session)
              status == api_create_folder(folders, permissions, user,
                                          name, path, parent_id)
          IN  IF status = 201
              THEN /\ Len(folders) < MaxFolders
                   /\ folders' = Append(folders,
                                        Folder(Strip(path), user.email, parent_id))
              ELSE UNCHANGED folders
    /\ UNCHANGED <<permissions, secrets, given, environ, urandom, result,
                   adminVars, roleVars, validVars, requests>>

\* POST /api/folders/<folder_id>/secrets
ApiCreateSecret ==
    /\ \E folder_id \in 1..(Len(folders) + 1), name \in SecretNames,
          value \in SecretValues :
          LET user   == from_session(session)
              status == api_create_secret(folders, permissions, secrets, environ,
                                          urandom, user, folder_id, name, value)
              key    == get_encryption_key(environ, urandom)
              ev     == encrypt_value(Str(Strip(value)), key)
          IN  /\ IF status \in {201, 500}
                 THEN /\ Drawn(environ, urandom) <= MaxRandom
                      /\ urandom' = Drawn(environ, urandom)
                 ELSE UNCHANGED urandom
              /\ IF status = 201
                 THEN /\ Len(secrets) < MaxSecrets
                      /\ secrets' = Append(secrets,
                              Secret(Strip(name), ev.value, folder_id, user.email))
                      /\ given' = Append(given, Given(Str(Strip(value)), environ))
                 ELSE UNCHANGED <<secrets, given>>
    /\ UNCHANGED <<folders, permissions, environ, result,
                   adminVars, roleVars, validVars, requests>>

\* POST /api/folders/<folder_id>/permissions
ApiGrantFolderPermission ==
    /\ \E folder_id \in 1..(Len(folders) + 1), user_email \in RequestEmails,
          access_type \in RequestTypes :
          LET user   == from_session(session)
              status == api_grant_folder_permission(folders, permissions, user,
                                        folder_id, user_email, access_type)
          IN  IF status = 200
              THEN /\ permissions' = grant_access(permissions, folder_id,
                                         Strip(user_email), Strip(access_type))
                   /\ Len(permissions') <= MaxGrants
              ELSE UNCHANGED permissions
    /\ UNCHANGED <<folders, secrets, given, environ, urandom, result,
                   adminVars, roleVars, validVars, requests>>

\* folder.is_active = False, committed: the folder is archived, its row kept
SoftDelete ==
    /\ \E folder_id \in 1..Len(folders) :
          /\ folders[folder_id].is_active
          /\ folders' = [folders EXCEPT ![folder_id].is_active = FALSE]
    /\ UNCHANGED <<permissions, secrets, given, environ, urandom, result,
                   adminVars, roleVars, validVars, requests>>

NextRoutes ==
    \/ Login
    \/ ApiCreateFolder
    \/ ApiCreateSecret
    \/ ApiGrantFolderPermission
    \/ SoftDelete

SpecRoutes == InitRoutes /\ [][NextRoutes]_vars

\* the statuses of a request that was carried out
Success == {200, 201}

\* C15: a secret is added to a folder only by a caller who has Write access
\* to that active folder, and a folder is added under a parent only by a
\* caller who has Write access to that active parent; a logged-in caller
\* without Write access to an active folder is refused both requests,
\* whatever the other fields are.
C15_CreationNeedsWrite ==
    /\ [][ /\ Len(secrets') > Len(secrets) =>
                LET s == secrets'[Len(secrets')]
                IN  /\ s.created_by = from_session(session).email
                    /\ ActiveFolder(folders, s.folder_id)
                    /\ WRITE \in AccessOf(folders, permissions, s.folder_id, s.created_by)
           /\ Len(folders') > Len(folders) =>
                LET f == folders'[Len(folders')]
                IN  /\ f.created_by = from_session(session).email
                    /\ f.parent_id # NoParent =>
                          /\ ActiveFolder(folders, f.parent_id)
                          /\ WRITE \in AccessOf(folders, permissions, f.parent_id,
                                                f.created_by) ]_vars
    /\ [](\A f \in 1..Len(folders) :
            LET user == from_session(session)
            IN  ( /\ user # NoUser
                  /\ folders[f].is_active
                  /\ WRITE \notin AccessOf(folders, permissions, f, user.email) )
                => /\ \A name \in SecretNames, value \in SecretValues :
                        api_create_secret(folders, permissions, secrets, environ,
                            urandom, user, f, name, value) \notin Success
                   /\ \A name \in RequestNames, path \in RequestPaths :
                        api_create_folder(folders, permissions, user, name, path, f)
                            \notin Success)

\* C15 witness: a user who is not the folder's creator and holds Write on it
\* through a row has created a secret in it; another folder is active and
\* gives that user no access.
C15_Witness ==
    \E i \in 1..Len(secrets), g \in 1..Len(folders) :
        LET s == secrets[i]
        IN  /\ s.created_by # folders[s.folder_id].created_by
            /\ WRITE \in AccessOf(folders, permissions, s.folder_id, s.created_by)
            /\ folders[g].is_active
            /\ session.authenticated /\ session.email = s.created_by
            /\ AccessOf(folders, permissions, g, s.created_by) = {}

\* C16: a row of a folder is created or changed through the grant request
\* only when the caller has Admin access to that active folder at that time;
\* a logged-in caller without Admin access to an active folder is refused
\* every grant on it, for any grantee (themselves included) and any type.
C16_GrantNeedsAdmin ==
    /\ [][ \A i \in 1..Len(permissions') :
              (i > Len(permissions) \/ permissions'[i] # permissions[i])
              => /\ ActiveFolder(folders, permissions'[i].folder_id)
                 /\ ADMIN \in AccessOf(folders, permissions, permissions'[i].folder_id,
                                       from_session(session).email) ]_vars
    /\ [](\A f \in 1..Len(folders) :
            LET user == from_session(session)
            IN  ( /\ user # NoUser
                  /\ folders[f].is_active
                  /\ ADMIN \notin AccessOf(folders, permissions, f, user.email) )
                => \A user_email \in RequestEmails, access_type \in RequestTypes :
                      api_grant_folder_permission(folders, permissions, user, f,
                          user_email, access_type) \notin Success)

\* C16 witness: the logged-in user holds Read and Write but not Admin on an
\* active folder, through a row the folder's creator granted.
C16_Witness ==
    \E i \in 1..Len(permissions) :
        LET row == permissions[i]
        IN  /\ session.authenticated /\ session.email = row.user_email
            /\ row.user_email # folders[row.folder_id].created_by
            /\ folders[row.folder_id].is_active
            /\ AccessOf(folders, permissions, row.folder_id, row.user_email)
                  = {READ, WRITE}

\* C20: after every sequence of folder-creation requests and soft deletes
\* no two active folders have the same path, and a creation request with a
\* name, from a logged-in user holding manage_secrets, whose path is that
\* of an active folder is answered 409 Conflict (and so adds no folder).
C20_ActivePathsUnique ==
    /\ \A i, j \in 1..Len(folders) :
          ( /\ folders[i].is_active /\ folders[j].is_active
            /\ folders[i].path = folders[j].path ) => i = j
    /\ LET user == from_session(session)
       IN  Permitted(user) =>
             \A name \in RequestNames \ {""}, path \in RequestPaths,
                parent_id \in 0..(Len(folders) + 1) :
                 ActivePath(folders, Strip(path))
                 => api_create_folder(folders, permissions, user, name, path,
                                      parent_id) = 409

\* C20 witness: after a creation, a soft delete and another creation one
\* folder is archived and one is active, and a user is logged in whose
\* request for the active folder's path would collide.
C20_Witness ==
    /\ Len(folders) = 2
    /\ ~folders[1].is_active
    /\ folders[2].is_active /\ folders[2].path = "/prod"
    /\ Permitted(from_session(session))

\* C21: once the folder at a path has been soft-deleted, a request to create
\* a folder at that path, with a name and no parent, from a logged-in user
\* holding manage_secrets, succeeds: it is answered 201 Created.
C21_PathReuseAfterSoftDelete ==
    LET user == from_session(session)
    IN  Permitted(user) =>
          \A name \in RequestNames \ {""}, path \in RequestPaths :
             ( /\ StartsWithSlash(Strip(path))
               /\ PathTaken(folders, Strip(path))
               /\ ~ActivePath(folders, Strip(path)) )
             => api_create_folder(folders, permissions, user, name, path,
                                  NoParent) = 201

----------------------------------------------------------------------------
(* app/folders/routes.py: listing and fetching folders *)

\* the ids of the folders table, in id order
Ids(fs) == [i \in 1..Len(fs) |-> i]

\* Folder.query.filter_by(created_by=user_email, is_active=True).all()
owned_folders(fs, user_email) ==
    SelectSeq(Ids(fs),
              LAMBDA i : fs[i].created_by = user_email /\ fs[i].is_active)

\* query(Folder).join(FolderPermission).filter(user_email ==, is_active).all():
\* one folder for each row of the join, here in row order
permitted_folders(fs, rows, user_email) ==
    LET hit == SelectSeq(rows, LAMBDA r : /\ r.user_email = user_email
                                          /\ fs[r.folder_id].is_active)
    IN  [i \in 1..Len(hit) |-> hit[i].folder_id]

\* {f.id: f for f in list}.values(): each id once, at its first position
RECURSIVE DictValues(_)
DictValues(list) ==
    IF list = <<>> THEN <<>>
    ELSE LET init == DictValues(SubSeq(list, 1, Len(list) - 1))
             id   == list[Len(list)]
         IN  IF \E i \in 1..Len(init) : init[i] = id
             THEN init
             ELSE Append(init, id)

\* mutant: the two lists are concatenated without the dictionary
get_accessible_folders_concat(fs, rows, user_email) ==
    owned_folders(fs, user_email) \o permitted_folders(fs, rows, user_email)

\* get_accessible_folders: the ids of the folders it returns
get_accessible_folders(fs, rows, user_email) ==
    DictValues(owned_folders(fs, user_email)
               \o permitted_folders(fs, rows, user_email))

\* Folder.get_children: the ids of the children it returns
get_children(fs, folder_id) ==
    SelectSeq(Ids(fs),
              LAMBDA i : fs[i].parent_id = folder_id /\ fs[i].is_active)

\* the elements of a list
Range(list) == {list[i] : i \in 1..Len(list)}

\* api_list_folders: the status it answers with
api_list_folders(user) ==
    IF ~Permitted(user) THEN 302
    ELSE 200

\* api_get_folder: the status it answers with
api_get_folder(fs, rows, user, folder_id) ==
    IF ~Permitted(user) THEN 302
    ELSE IF ~ActiveFolder(fs, folder_id) THEN 404
    ELSE IF ~has_access(fs, rows, folder_id, user.email, READ) THEN 403
    ELSE 200

\* api_get_folder_permissions: the status it answers with
api_get_folder_permissions(fs, rows, user, folder_id) ==
    IF ~Permitted(user) THEN 302
    ELSE IF ~ActiveFolder(fs, folder_id) THEN 404
    ELSE IF ~has_access(fs, rows, folder_id, user.email, ADMIN) THEN 403
    ELSE 200

\* the folder is inactive or lies under an inactive folder
RECURSIVE Excluded(_, _)
Excluded(fs, folder_id) ==
    \/ ~fs[folder_id].is_active
    \/ /\ fs[folder_id].parent_id # NoParent
       /\ Excluded(fs, fs[folder_id].parent_id)

\* C22: a folder that is inactive, or that has an inactive ancestor, is in
\* no user's list of accessible folders and among no folder's children, and
\* a request to fetch it, or to add a secret, a child folder or a grant to
\* it, is not carried out, whoever is logged in.
C22_SoftDeleteExcludesSubtree ==
    \A f \in 1..Len(folders) :
        Excluded(folders, f) =>
          /\ \A u \in RouteUsers :
                f \notin Range(get_accessible_folders(folders, permissions, u.email))
          /\ \A g \in 1..Len(folders) : f \notin Range(get_children(folders, g))
          /\ LET user == from_session(session)
             IN  /\ api_get_folder(folders, permissions, user, f) \notin Success
                 /\ \A name \in SecretNames, value \in SecretValues :
                       api_create_secret(folders, permissions, secrets, environ,
                           urandom, user, f, name, value) \notin Success
                 /\ \A name \in RequestNames, path \in RequestPaths :
                       api_create_folder(folders, permissions, user, name, path, f)
                           \notin Success
                 /\ \A user_email \in RequestEmails, access_type \in RequestTypes :
                       api_grant_folder_permission(folders, permissions, user, f,
                           user_email, access_type) \notin Success

\* C23: after every sequence of secret-creation requests no folder holds two
\* active secrets with the same name; a secret is added only under a name no
\* active secret of its folder has, a request that is valid but for such a
\* name is answered 409 Conflict, and the name of a secret of one folder is
\* accepted (201) in another folder that has no secret of that name.
C23_SecretNamesUniquePerFolder ==
    /\ [][ Len(secrets') > Len(secrets) =>
              LET s == secrets'[Len(secrets')]
              IN  /\ ~ActiveSecret(secrets, s.folder_id, s.name)
                  /\ SubSeq(secrets', 1, Len(secrets)) = secrets ]_vars
    /\ [](/\ \A i, j \in 1..Len(secrets) :
                ( /\ secrets[i].is_active /\ secrets[j].is_active
                  /\ secrets[i].folder_id = secrets[j].folder_id
                  /\ secrets[i].name = secrets[j].name ) => i = j
           /\ LET user == from_session(session)
              IN  \A f \in 1..Len(folders), name \in SecretNames \ {""},
                     value \in SecretValues \ {""} :
                      ( /\ Permitted(user)
                        /\ folders[f].is_active
                        /\ WRITE \in AccessOf(folders, permissions, f, user.email) )
                      => api_create_secret(folders, permissions, secrets, environ,
                             urandom, user, f, name, value)
                           = IF ActiveSecret(secrets, f, name) THEN 409 ELSE 201)

\* C23 witness: two folders each hold an active secret of one name, and the
\* logged-in user has Write access to both, so that a further request under
\* that name would collide in either.
C23_Witness ==
    /\ Len(secrets) = 2
    /\ secrets[1].name = secrets[2].name
    /\ secrets[1].folder_id # secrets[2].folder_id
    /\ secrets[1].is_active /\ secrets[2].is_active
    /\ LET user == from_session(session)
       IN  /\ Permitted(user)
           /\ \A i \in 1..2 :
                 /\ folders[secrets[i].folder_id].is_active
                 /\ WRITE \in AccessOf(folders, permissions,
                                       secrets[i].folder_id, user.email)

\* the session identity holds manage_secrets through one of its roles
HoldsManageSecrets(user) ==
    user # NoUser /\ MANAGE_SECRETS \in PermissionsOf(user.roles)

\* C29: a folder, a secret or a row is added or changed by a request only
\* when the session identity holds manage_secrets through a role and has the
\* access type the request needs on the folder concerned; an identity
\* without manage_secrets is refused all six API requests, on every folder
\* and with every input, and an identity with it is refused the fetch
\* without Read, the secret and the child folder without Write, and the
\* permission list and the grant without Admin.
C29_ApiNeedsManageSecretsAndAccess ==
    /\ [][ LET user == from_session(session)
           IN  /\ ( \/ Len(folders') > Len(folders)
                    \/ secrets' # secrets
                    \/ permissions' # permissions ) => HoldsManageSecrets(user)
               /\ Len(secrets') > Len(secrets) =>
                     WRITE \in AccessOf(folders, permissions,
                                  secrets'[Len(secrets')].folder_id, user.email)
               /\ ( /\ Len(folders') > Len(folders)
                    /\ folders'[Len(folders')].parent_id # NoParent ) =>
                     WRITE \in AccessOf(folders, permissions,
                                  folders'[Len(folders')].parent_id, user.email)
               /\ \A i \in 1..Len(permissions') :
                     (i > Len(permissions) \/ permissions'[i] # permissions[i])
                     => ADMIN \in AccessOf(folders, permissions,
                                   permissions'[i].folder_id, user.email) ]_vars
    /\ [](LET user == from_session(session)
              refused(status, needed, f) ==
                  ( \/ ~HoldsManageSecrets(user)
                    \/ needed \notin AccessOf(folders, permissions, f, user.email) )
                  => status \notin Success
          IN  /\ ~HoldsManageSecrets(user) =>
                    /\ api_list_folders(user) \notin Success
                    /\ \A name \in RequestNames, path \in RequestPaths :
                          api_create_folder(folders, permissions, user, name, path,
                                            NoParent) \notin Success
              /\ \A f \in 1..Len(folders) :
                    /\ refused(api_get_folder(folders, permissions, user, f), READ, f)
                    /\ refused(api_get_folder_permissions(folders, permissions,
                                                          user, f), ADMIN, f)
                    /\ \A user_email \in RequestEmails, access_type \in RequestTypes :
                          refused(api_grant_folder_permission(folders, permissions,
                                      user, f, user_email, access_type), ADMIN, f)
                    /\ \A name \in SecretNames, value \in SecretValues :
                          refused(api_create_secret(folders, permissions, secrets,
                                      environ, urandom, user, f, name, value), WRITE, f)
                    /\ \A name \in RequestNames, path \in RequestPaths :
                          refused(api_create_folder(folders, permissions, user,
                                      name, path, f), WRITE, f))

\* C29 witness: a Guest-only identity is logged in; it created one active
\* folder and holds a row granting Admin on another active folder.
C29_Witness ==
    /\ session.authenticated /\ session.roles = {GUEST}
    /\ Len(folders) = 2
    /\ folders[1].is_active /\ folders[2].is_active
    /\ folders[1].created_by = session.email
    /\ folders[2].created_by # session.email
    /\ AccessOf(folders, permissions, 2, session.email) = {READ, WRITE, ADMIN}

\* C24: for every user address, get_accessible_folders returns each folder
\* at most once, and the folders it returns are exactly the active folders
\* the address created or is named by a row of; the rows being those the
\* grant request made, these are exactly the active folders on which
\* has_access gives the address Read.
C24_ListAccessible ==
    \A user_email \in RequestEmails \ {""} :
        LET list == get_accessible_folders(folders, permissions, user_email)
        IN  /\ \A i, j \in 1..Len(list) : list[i] = list[j] => i = j
            /\ Range(list) =
                  { f \in 1..Len(folders) :
                      /\ folders[f].is_active
                      /\ \/ folders[f].created_by = user_email
                         \/ \E r \in 1..Len(permissions) :
                               /\ permissions[r].folder_id = f
                               /\ permissions[r].user_email = user_email }
            /\ Range(list) =
                  { f \in 1..Len(folders) :
                      /\ folders[f].is_active
                      /\ has_access(folders, permissions, f, user_email, READ) }

\* C24 witness: a user created one folder and granted themselves a row on
\* it, and is named by a row of a folder someone else created; the list has
\* both folders.
C24_Witness ==
    /\ Len(folders) = 2 /\ Len(permissions) = 2
    /\ folders[1].created_by = "user@example.com"
    /\ folders[2].created_by = "admin@example.com"
    /\ \A r \in 1..2 : permissions[r].user_email = "user@example.com"
    /\ permissions[1].folder_id # permissions[2].folder_id
    /\ get_accessible_folders(folders, permissions, "user@example.com") = <<1, 2>>

C27_RemoveAbsentRoleIsNoOp ==
    [][ /\ up_last'.op # "KeyError"
        /\ (up_last'.op = "remove_role" /\ ~up_last'.held)
              => /\ up_roles' = up_roles
                 /\ up_permissions' = up_permissions
                 /\ up_assigned_by' = up_assigned_by ]_vars

\* C27 witness: remove_role was called for Administrator on an identity
\* that held Regular User only, through an earlier add_role.
C27_Witness ==
    /\ up_last = [op |-> "remove_role", role |-> USER_ADMINISTRATOR, held |-> FALSE]
    /\ up_roles = {REGULAR_USER}
    /\ up_assigned_by # None

----------------------------------------------------------------------------
(* app/auth/models.py: User.from_session on the session a request carries *)

\* strings found under "roles": the values of UserRole and strings that are
\* no value of it (an unknown name, a member name in place of its value)
RoleTokens == RoleValues(UserRoles) \cup {"root", "GUEST"}

\* strings found under "permissions"
PermissionTokens == {MANAGE_USERS}

\* the sessions requests arrive with: none, or a "user" dict as
\* save_to_session of this or another release wrote it, or as the role
\* service left it after rewriting "roles" alone
PersistedSessions ==
    {NoSession} \cup
    { [authenticated |-> TRUE, email |-> USER_EMAIL, name |-> REGULAR_USER_NAME,
       roles |-> rs, permissions |-> ps] :
         rs \in SUBSET RoleTokens, ps \in SUBSET PermissionTokens }

\* the outcome of a from_session call on a session
FromSessionCall(sess, user) == [op |-> "from_session", sess |-> sess, user |-> user]

InitSession ==
    /\ session = NoSession
    /\ users_cache = <<>>
    /\ heap = <<>>
    /\ last = [op |-> "idle"]
    /\ RolesIdle /\ ValidIdle /\ NoRequests /\ FolderIdle

\* a request arrives: Flask loads its session
OpenSession ==
    /\ session' \in PersistedSessions
    /\ UNCHANGED <<users_cache, heap, last, roleVars, validVars, requests, folderVars>>

\* User.from_session() in a view or a decorator
FromSession ==
    /\ last' = FromSessionCall(session, from_session(session))
    /\ UNCHANGED <<session, users_cache, heap, roleVars, validVars, requests, folderVars>>

NextSession == OpenSession \/ FromSession

SpecSession == InitSession /\ [][NextSession]_vars

\* C25: from_session on an authenticated session returns a User whatever
\* the role tokens are: its role set is the set of tokens that are values
\* of UserRole, or {regular_user} when there is none, and its permissions
\* are the union over that role set, whatever list the session stores.
C25_FromSessionDropsInvalidTokens ==
    (last.op = "from_session" /\ last.sess.authenticated) =>
        LET valid == {t \in last.sess.roles : t \in UserRoles}
            user  == last.user
        IN  /\ DOMAIN user = {"email", "name", "roles", "permissions"}
            /\ user.roles = IF valid = {} THEN {REGULAR_USER} ELSE valid
            /\ user.permissions = PermissionsOf(user.roles)

\* C25 witness: the session held Guest and two strings that are no role,
\* and a permission list naming manage_users; the User rebuilt from it
\* holds Guest alone and no permission.
C25_Witness ==
    /\ last.op = "from_session"
    /\ last.sess.authenticated
    /\ last.sess.roles = {GUEST, "root", "GUEST"}
    /\ last.sess.permissions = {MANAGE_USERS}
    /\ last.user.roles = {GUEST}
    /\ last.user.permissions = {}

----------------------------------------------------------------------------
(* app/admin/routes.py, app/admin/user_manager.py: calls made by an identity *)
(* of the service itself, with the roles the service reports for it          *)

\* the addresses a call names as its target
TargetEmails == ServiceEmails \cup {ADMIN_EMAIL}

\* the identities get_all_users lists, each with the roles get_user_roles
\* reports for its address
ListedUsers(sess, cache, hp) ==
    LET users == get_all_users(sess, cache, hp)
    IN  { [email |-> users[i].d.email,
           roles |-> get_user_roles(sess, cache, hp, users[i].d.email)] :
          i \in 1..Len(users) }

CurrentUsers == ListedUsers(session, users_cache, heap)

\* some listed identity holds USER_ADMINISTRATOR
AdministratorHeld(sess, cache, hp) ==
    \E u \in ListedUsers(sess, cache, hp) : USER_ADMINISTRATOR \in u.roles

\* POST /users/assign, and assign_role_to_user called by a listed identity
AssignByCurrentUser ==
    /\ \E a \in CurrentUsers, target_email \in TargetEmails, role \in UserRoles :
          assign_role_to_user(a, target_email, role)
    /\ UNCHANGED <<roleVars, validVars, requests, folderVars>>

\* POST /users/remove, and remove_role_from_user called by a listed identity
RemoveByCurrentUser ==
    /\ \E a \in CurrentUsers, target_email \in TargetEmails, role \in UserRoles :
          remove_role_from_user(a, target_email, role)
    /\ UNCHANGED <<roleVars, validVars, requests, folderVars>>

NextLockout ==
    \/ SaveToSession
    \/ Logout
    \/ NewUserManager
    \/ AssignByCurrentUser
    \/ RemoveByCurrentUser

SpecLockout == InitAdmin /\ [][NextLockout]_vars

\* C28: when some identity holds Administrator, an assign or remove call
\* made by a listed identity with the roles the service reports for it
\* leaves some identity holding Administrator.
C28_NoLockOut ==
    [][ ( /\ last'.op \in {"assign", "remove"}
          /\ AdministratorHeld(session, users_cache, heap) )
          => AdministratorHeld(session', users_cache', heap') ]_vars

\* C28 witness: an administrator's call to remove Administrator from its
\* own address, in another spelling, was refused, and it still holds the
\* role.
C28_Witness ==
    /\ last.op = "remove" /\ last.role = USER_ADMINISTRATOR
    /\ last.by_admin /\ last.self
    /\ ~last.ok /\ last.msg = SelfDemotionDenied
    /\ session.authenticated /\ session.email # last.target
    /\ AdministratorHeld(session, users_cache, heap)

----------------------------------------------------------------------------
(* app/folders/routes.py: two grant requests, each in its own db.session *)

\* no row was located
NoRow == [norow |-> TRUE]

\* a grant request that has not started: its JSON body and folder id
GrantRequest(folder_id, user_email, access_type) ==
    [pc |-> "start", folder_id |-> folder_id, user_email |-> user_email,
     access_type |-> access_type, seen |-> 0, loaded |-> NoRow]

\* a folder exists, with no row or with one row an earlier grant made for
\* the grantee; its creator is logged in and sends two grant requests for
\* the same folder and grantee
InitConcurrent ==
    /\ folders = <<Folder("/prod", "admin@example.com", NoParent)>>
    /\ permissions \in
          {<<>>} \cup { grant_access(<<>>, Len(folders), "user@example.com", t) :
                        t \in AccessType }
    /\ session = SessionOf("admin@example.com", NameOf("admin@example.com"),
                           {REGULAR_USER})
    /\ requests \in
          [ {1, 2} -> { GrantRequest(Len(folders), "user@example.com", t) :
                        t \in AccessType } ]
    /\ users_cache = <<>>
    /\ heap = <<>>
    /\ last = [op |-> "idle"]
    /\ StoreIdle /\ RolesIdle /\ ValidIdle

\* api_grant_folder_permission up to grant_access's lookup: the checks pass
\* and the request's session loads folder.permissions as committed so far
GrantLocate ==
    /\ \E i \in DOMAIN requests :
          LET r == requests[i]
              j == FirstRow(permissions, r.folder_id, r.user_email)
          IN  /\ r.pc = "start"
              /\ api_grant_folder_permission(folders, permissions,
                     from_session(session), r.folder_id, r.user_email,
                     r.access_type) = 200
              /\ requests' = [requests EXCEPT ![i] =
                     [r EXCEPT !.pc = "located", !.seen = j,
                               !.loaded = IF j = 0 THEN NoRow ELSE permissions[j]]]
    /\ UNCHANGED <<folders, permissions, storeVars, adminVars, roleVars, validVars>>

\* the rest of grant_access and db.session.commit(): a request that located
\* no row INSERTs one; one that located a row UPDATEs, in the row as it is
\* now, the columns its session changed
GrantCommit ==
    /\ \E i \in DOMAIN requests :
          LET r   == requests[i]
              new == Escalate(FolderPermission(r.folder_id, r.user_email,
                                               TRUE, FALSE, FALSE), r.access_type)
              set == Escalate(r.loaded, r.access_type)
          IN  /\ r.pc = "located"
              /\ permissions' =
                    IF r.seen = 0
                    THEN Append(permissions, new)
                    ELSE [permissions EXCEPT ![r.seen] =
                            [@ EXCEPT
                               !.can_read  = IF set.can_read # r.loaded.can_read
                                             THEN set.can_read ELSE @,
                               !.can_write = IF set.can_write # r.loaded.can_write
                                             THEN set.can_write ELSE @,
                               !.can_admin = IF set.can_admin # r.loaded.can_admin
                                             THEN set.can_admin ELSE @]]
              /\ requests' = [requests EXCEPT ![i].pc = "done"]
    /\ UNCHANGED <<folders, storeVars, adminVars, roleVars, validVars>>

NextConcurrent == GrantLocate \/ GrantCommit

SpecConcurrent == InitConcurrent /\ [][NextConcurrent]_vars

\* C30: when two grant requests for one folder and grantee have both
\* committed, the pair has exactly one row and has_access gives the grantee
\* the access type of either request.
C30_ConcurrentGrantsOneRow ==
    (requests # <<>> /\ \A i \in DOMAIN requests : requests[i].pc = "done") =>
        LET f == requests[1].folder_id
            e == requests[1].user_email
        IN  /\ Cardinality({ k \in 1..Len(permissions) :
                               /\ permissions[k].folder_id = f
                               /\ permissions[k].user_email = e }) = 1
            /\ \A i \in DOMAIN requests :
                  has_access(folders, permissions, f, e, requests[i].access_type)

====
